---------------------------- MODULE Spec2Model ----------------------------
(***************************************************************************)
(* A model of package lamenv (src/lamenv.go): binding of the process       *)
(* environment onto a typed target by reflection.                          *)
(*                                                                         *)
(* Go strings are modelled as sequences of one-character strings, so that  *)
(* strings.ToUpper, ToLower, Split, Join, Contains, TrimPrefix, TrimSpace  *)
(* and the strconv parsers are computed, not assumed.                      *)
(***************************************************************************)
EXTENDS Integers, Sequences, FiniteSets, TLC

(***************************************************************************)
(* Package strings                                                         *)
(***************************************************************************)
Lower == <<"a","b","c","d","e","f","g","h","i","j","k","l","m",
           "n","o","p","q","r","s","t","u","v","w","x","y","z">>

Upper == <<"A","B","C","D","E","F","G","H","I","J","K","L","M",
           "N","O","P","Q","R","S","T","U","V","W","X","Y","Z">>

Digits == <<"0","1","2","3","4","5","6","7","8","9">>

IndexOf(c, s) ==
    IF \E i \in 1..Len(s) : s[i] = c
    THEN CHOOSE i \in 1..Len(s) : s[i] = c
    ELSE 0

mapped(i, c, to) == IF i = 0 THEN c ELSE to[i]

ToUpperCh(c) == mapped(IndexOf(c, Lower), c, Upper)

ToLowerCh(c) == mapped(IndexOf(c, Upper), c, Lower)

ToUpper(s) == [i \in 1..Len(s) |-> ToUpperCh(s[i])]

ToLower(s) == [i \in 1..Len(s) |-> ToLowerCh(s[i])]

\* strings.Join(parts, sep)
RECURSIVE Join(_, _)
Join(parts, sep) ==
    IF Len(parts) = 0 THEN <<>>
    ELSE IF Len(parts) = 1 THEN parts[1]
    ELSE parts[1] \o sep \o Join(Tail(parts), sep)

\* strings.Index(s, sep) + 1 for a one-character sep that occurs in s
Index(s, sep) ==
    CHOOSE j \in 1..Len(s) : s[j] = sep /\ \A k \in 1..(j-1) : s[k] # sep

\* strings.Split(s, sep) for a one-character separator: n separators give
\* n+1 parts, and the empty string gives one empty part.
RECURSIVE Split(_, _)
cutAt(s, sep, i) == <<SubSeq(s, 1, i-1)>> \o Split(SubSeq(s, i+1, Len(s)), sep)

Split(s, sep) ==
    IF \E i \in 1..Len(s) : s[i] = sep THEN cutAt(s, sep, Index(s, sep)) ELSE <<s>>

\* strings.Contains(s, sub)
Contains(s, sub) ==
    \E i \in 0..(Len(s) - Len(sub)) : SubSeq(s, i+1, i+Len(sub)) = sub

HasPrefix(s, p) == Len(p) <= Len(s) /\ SubSeq(s, 1, Len(p)) = p

\* strings.TrimPrefix(s, p)
TrimPrefix(s, p) == IF HasPrefix(s, p) THEN SubSeq(s, Len(p)+1, Len(s)) ELSE s

\* strings.TrimSpace(s); the space is the only white space of the alphabet.
RECURSIVE TrimSpace(_)
TrimSpace(s) ==
    IF Len(s) = 0 THEN s
    ELSE IF s[1] = " " THEN TrimSpace(Tail(s))
    ELSE IF s[Len(s)] = " " THEN TrimSpace(SubSeq(s, 1, Len(s)-1))
    ELSE s

(***************************************************************************)
(* Package strconv                                                         *)
(***************************************************************************)
\* strconv.Itoa(i) for i >= 0
RECURSIVE Itoa(_)
Itoa(i) == IF i < 10 THEN <<Digits[i+1]>> ELSE Itoa(i \div 10) \o <<Digits[(i % 10)+1]>>

IsDigits(s) == Len(s) > 0 /\ \A i \in 1..Len(s) : IndexOf(s[i], Digits) # 0

RECURSIVE DigitsValue(_)
DigitsValue(s) ==
    IF Len(s) = 0 THEN 0
    ELSE 10 * DigitsValue(SubSeq(s, 1, Len(s)-1)) + (IndexOf(s[Len(s)], Digits) - 1)

NoErr == [kind |-> "nil"]

\* *strconv.NumError{Func, Num, Err}
NumError(fn, num, e) == [kind |-> "NumError", fn |-> fn, num |-> num, err |-> e]

signOf(s) == IF Len(s) > 0 /\ s[1] = "-" THEN 0 - 1 ELSE 1

unsigned(s) == IF Len(s) > 0 /\ s[1] \in {"+", "-"} THEN Tail(s) ELSE s

number(fn, s, sign, body) ==
    IF IsDigits(body)
    THEN [err |-> NoErr, val |-> sign * DigitsValue(body)]
    ELSE [err |-> NumError(fn, s, "invalid syntax"), val |-> 0]

\* strconv.ParseInt(s, 10, 0): an optional sign and decimal digits. The
\* literals of the model are short enough to fit the native width, so
\* ErrRange does not arise.
ParseInt(s) == number("ParseInt", s, signOf(s), unsigned(s))

\* strconv.ParseUint(s, 10, 0): decimal digits, no sign.
ParseUint(s) == number("ParseUint", s, 1, s)

TrueLiterals == { <<"1">>, <<"t">>, <<"T">>, <<"T","R","U","E">>,
                  <<"t","r","u","e">>, <<"T","r","u","e">> }

FalseLiterals == { <<"0">>, <<"f">>, <<"F">>, <<"F","A","L","S","E">>,
                   <<"f","a","l","s","e">>, <<"F","a","l","s","e">> }

\* strconv.ParseBool(s)
ParseBool(s) ==
    IF s \in TrueLiterals THEN [err |-> NoErr, val |-> TRUE]
    ELSE IF s \in FalseLiterals THEN [err |-> NoErr, val |-> FALSE]
    ELSE [err |-> NumError("ParseBool", s, "invalid syntax"), val |-> FALSE]

fraction(s, sign, ps) ==
    IF /\ Len(ps) \in {1, 2}
       /\ \A i \in 1..Len(ps) : \A j \in 1..Len(ps[i]) : IndexOf(ps[i][j], Digits) # 0
       /\ \E i \in 1..Len(ps) : Len(ps[i]) > 0
    THEN [err |-> NoErr,
          val |-> [m    |-> sign * DigitsValue(Join(ps, <<>>)),
                   frac |-> IF Len(ps) = 2 THEN Len(ps[2]) ELSE 0]]
    ELSE [err |-> NumError("ParseFloat", s, "invalid syntax"),
          val |-> [m |-> 0, frac |-> 0]]

\* strconv.ParseFloat(s, 10) on the literals of the model's alphabet: an
\* optional sign, digits, and an optional fraction. The value is kept as
\* the pair of the digits read as an integer and the number of fraction
\* digits.
ParseFloat(s) == fraction(s, signOf(s), Split(unsigned(s), "."))

(***************************************************************************)
(* Types and values (package reflect)                                      *)
(*                                                                         *)
(* A type is a record tagged by sh: "scalar" (kind, bits), "struct"        *)
(* (fields), "slice" (elem), "map" (key, elem), "ptr" (elem).  A value of  *)
(* a struct is the tuple of its fields' values, of a slice the tuple of    *)
(* its elements, of a pointer <<>> (nil) or <<v>>, of a map the record of  *)
(* its nil flag and its entries (a function of the keys).                  *)
(***************************************************************************)
Scalar(kind, bits) == [sh |-> "scalar", kind |-> kind, bits |-> bits]

StructOf(fields) == [sh |-> "struct", fields |-> fields]

SliceOf(elem) == [sh |-> "slice", elem |-> elem]

MapOf(key, elem) == [sh |-> "map", key |-> key, elem |-> elem]

PtrTo(elem) == [sh |-> "ptr", elem |-> elem]

\* reflect.StructField: Name, whether it is exported, Tag, Type
Field(name, exported, tag, type) ==
    [name |-> name, exported |-> exported, tag |-> tag, type |-> type]

NoTag == <<>>

\* reflect.Zero
RECURSIVE Zero(_)
Zero(t) ==
    CASE t.sh = "scalar" ->
           (CASE t.kind = "string" -> <<>>
              [] t.kind = "bool"   -> FALSE
              [] t.kind = "float"  -> [m |-> 0, frac |-> 0]
              [] t.kind \in {"int", "uint"} -> 0
              [] OTHER -> "opaque")
      [] t.sh = "struct" -> [i \in 1..Len(t.fields) |-> Zero(t.fields[i].type)]
      [] t.sh = "slice"  -> <<>>
      [] t.sh = "map"    -> [nil |-> TRUE, ent |-> <<>>]
      [] t.sh = "ptr"    -> <<>>

\* Value.SetInt on a field of the given width: the conversion intN(x) keeps
\* the low bits. The literals of the model are below 2^31, where the 32 and
\* 64 bit conversions change nothing.
SetInt(x, bits) ==
    IF bits >= 32 THEN x
    ELSE ((x + 2^(bits-1)) % 2^bits) - 2^(bits-1)

\* Value.SetUint on a field of the given width: uintN(x)
SetUint(x, bits) == IF bits >= 32 THEN x ELSE x % 2^bits

(***************************************************************************)
(* The process environment and the Lamenv instance                         *)
(***************************************************************************)
VARIABLES
    environ,    \* os.Environ(): the value of each variable name
    typ,        \* the type of the object handed to Unmarshal
    parts,      \* the prefix handed to Unmarshal
    object,     \* the value the object pointer points to
    lamenv,     \* the Lamenv instance of the caller: <<>> or <<[TagSupports, env]>>
    calls,      \* number of Unmarshal calls made on the object
    last        \* history: <<>> or <<the record of the last Unmarshal call>>

vars == <<environ, typ, parts, object, lamenv, calls, last>>

\* one element of os.Environ()
Entry(name) == name \o <<"=">> \o environ[name]

buildEnvVariable(ps) == Join([i \in 1..Len(ps) |-> ToUpper(ps[i])], <<"_">>)

\* the names New keeps: the entries that split into exactly two parts on "="
NewEnv ==
    { Split(Entry(n), "=")[1] : n \in { x \in DOMAIN environ : Len(Split(Entry(x), "=")) = 2 } }

defaultTagSupported == <<"yaml", "json", "mapstructure">>

New == [TagSupports |-> defaultTagSupported, env |-> NewEnv]

matches(envSplit, variable) == Len(envSplit) = 2 /\ Contains(envSplit[1], variable)

anyContains(variable) == \E n \in DOMAIN environ : matches(Split(Entry(n), "="), variable)

\* contains, were it to ask for a variable of exactly that name
containsExact(ps) == buildEnvVariable(ps) \in NewEnv

contains(ps) == anyContains(buildEnvVariable(ps))

LookupEnv(variable) ==
    [variable |-> variable,
     ok       |-> variable \in DOMAIN environ,
     value    |-> IF variable \in DOMAIN environ THEN environ[variable] ELSE <<>>]

\* os.LookupEnv of the built name
lookupEnv(ps) == LookupEnv(buildEnvVariable(ps))

RECURSIVE lookupTagFrom(_, _, _)
lookupTagFrom(tag, tagSupports, i) ==
    IF i > Len(tagSupports) THEN [s |-> <<>>, ok |-> FALSE]
    ELSE IF tagSupports[i] \in DOMAIN tag THEN [s |-> tag[tagSupports[i]], ok |-> TRUE]
    ELSE lookupTagFrom(tag, tagSupports, i + 1)

lookupTag(tag, tagSupports) == lookupTagFrom(tag, tagSupports, 1)

(***************************************************************************)
(* The shape prober of decodeMap (newRing, guessPrefix).  Its code is not  *)
(* in src/lamenv.go; it is modelled from section 4.8 of the design: the    *)
(* shortest leading run of segments whose removal leaves a suffix that the *)
(* value type recognises.                                                  *)
(***************************************************************************)
SquashTags == { <<",","s","q","u","a","s","h">>, <<",","i","n","l","i","n","e">> }

OmitEmpty == <<"o","m","i","t","e","m","p","t","y">>

RECURSIVE ringMatches(_, _, _)
ringNamed(f, nm, tagSupports, segs) ==
    /\ Len(segs) >= Len(nm)
    /\ SubSeq(segs, 1, Len(nm)) = nm
    /\ ringMatches(f.type, tagSupports, SubSeq(segs, Len(nm)+1, Len(segs)))

ringField(f, tg, tagSupports, segs) ==
    /\ f.exported
    /\ ~(tg.ok /\ tg.s = <<"-">>)
    /\ IF tg.ok /\ tg.s \in SquashTags
       THEN ringMatches(f.type, tagSupports, segs)
       ELSE ringNamed(f, Split(ToUpper(IF tg.ok THEN tg.s ELSE f.name), "_"),
                      tagSupports, segs)

ringMatches(t, tagSupports, segs) ==
    CASE t.sh = "ptr"    -> ringMatches(t.elem, tagSupports, segs)
      [] t.sh = "scalar" -> Len(segs) = 0
      [] t.sh = "slice"  -> /\ Len(segs) > 0
                            /\ IsDigits(segs[1])
                            /\ ringMatches(t.elem, tagSupports, Tail(segs))
      [] t.sh = "struct" ->
           \E i \in 1..Len(t.fields) :
              ringField(t.fields[i], lookupTag(t.fields[i].tag, tagSupports),
                        tagSupports, segs)
      [] t.sh = "map"    -> Len(segs) > 0

shortest(fits, futureParts) ==
    IF fits = {} THEN <<>>
    ELSE Join(SubSeq(futureParts, 1, CHOOSE x \in fits : \A y \in fits : x <= y), <<"_">>)

guessPrefix(futureParts, t, tagSupports) ==
    shortest({ k \in 1..Len(futureParts) :
                 ringMatches(t, tagSupports, SubSeq(futureParts, k+1, Len(futureParts))) },
             futureParts)

(***************************************************************************)
(* The decoder.  A decoding state st holds the instance (TagSupports,      *)
(* env), the order in which this call's range loops visit the keys of env  *)
(* (Go leaves it unspecified), the error being returned and the log of     *)
(* environment accesses.  Every operator returns [st, v]: the state and    *)
(* the value now held by the reflect.Value it was handed.                  *)
(***************************************************************************)
Logged(st, op, ps) ==
    [st EXCEPT !.log = Append(@, [op |-> op, ps |-> ps, name |-> buildEnvVariable(ps)])]

Failed(st, e) == [st EXCEPT !.err = e]

\* the value a parser result leaves in v
parsed(v, r) == IF r.err # NoErr THEN [err |-> r.err, v |-> v] ELSE [err |-> NoErr, v |-> r.val]

parsedInt(v, bits, r) ==
    IF r.err # NoErr THEN [err |-> r.err, v |-> v] ELSE [err |-> NoErr, v |-> SetInt(r.val, bits)]

parsedUint(v, bits, r) ==
    IF r.err # NoErr THEN [err |-> r.err, v |-> v] ELSE [err |-> NoErr, v |-> SetUint(r.val, bits)]

decodeString(v, input) == [err |-> NoErr, v |-> input]

decodeBool(v, input) == parsed(v, ParseBool(TrimSpace(input)))

decodeInt(v, bits, input) == parsedInt(v, bits, ParseInt(TrimSpace(input)))

decodeUInt(v, bits, input) == parsedUint(v, bits, ParseUint(TrimSpace(input)))

decodeFloat(v, input) == parsed(v, ParseFloat(TrimSpace(input)))

\* t is the type of v: a scalar of some kind, or a pointer left after one
\* dereference; kinds without a case are left untouched.
decodeNative(t, v, input) ==
    IF t.sh # "scalar" THEN [err |-> NoErr, v |-> v]
    ELSE CASE t.kind = "string" -> decodeString(v, input)
           [] t.kind = "bool"   -> decodeBool(v, input)
           [] t.kind = "int"    -> decodeInt(v, t.bits, input)
           [] t.kind = "uint"   -> decodeUInt(v, t.bits, input)
           [] t.kind = "float"  -> decodeFloat(v, input)
           [] OTHER             -> [err |-> NoErr, v |-> v]

\* delete(l.env, variable)
consumed(st, ps) == Logged([st EXCEPT !.env = @ \ {buildEnvVariable(ps)}], "delete", ps)

\* return l.decodeNative(v, input)
native(st, ps, r) ==
    [st |-> Failed(Logged(st, IF r.err = NoErr THEN "decoded" ELSE "failed", ps), r.err),
     v  |-> r.v]

found(st, t, v, ps, look) ==
    IF look.ok THEN native(consumed(st, ps), ps, decodeNative(t, v, look.value))
    ELSE [st |-> st, v |-> v]

\* the default case of decode's switch
decodeDefault(st, t, v, ps) == found(Logged(st, "lookup", ps), t, v, ps, lookupEnv(ps))

\* the preconditions of decodeMap, were the one on the value type missing
mapKeyError(t) ==
    IF ~(t.key.sh = "scalar" /\ t.key.kind = "string")
    THEN [kind |-> "errorString",
          msg  |-> "unable to unmarshal a map with a key that is not a string"]
    ELSE NoErr

\* the two preconditions of decodeMap
mapTypeError(t) ==
    IF ~(t.key.sh = "scalar" /\ t.key.kind = "string")
    THEN [kind |-> "errorString",
          msg  |-> "unable to unmarshal a map with a key that is not a string"]
    ELSE IF t.elem.sh = "map"
    THEN [kind |-> "errorString",
          msg  |-> "unable to unmarshal a map of a map, it's not a determinist datamodel"]
    ELSE NoErr

\* the residual, were the prefix trimmed without its trailing "_"
mapResidualBare(e, ps) == TrimPrefix(e, buildEnvVariable(ps))

\* what is left of variable e once the prefix built from the parts is trimmed
mapResidual(e, ps) == TrimPrefix(e, buildEnvVariable(ps) \o <<"_">>)

\* the key under which decodeMap stores the value decoded at keyString
mapKey(keyString) == TrimSpace(ToLower(keyString))

\* a caller that goes on whatever a nested decode returned
neverReturned(r) == FALSE

\* whether a nested decode made its caller return
returned(r) == r.st.err # NoErr

RECURSIVE decode(_, _, _, _)
RECURSIVE decodeStructFrom(_, _, _, _, _)
RECURSIVE decodeSliceFrom(_, _, _, _, _)
RECURSIVE decodeMapFrom(_, _, _, _, _)

\* the body of decodeSlice's loop, r being what decode returned for item i
sliceItem(r, t, v, ps, i) ==
    IF returned(r) THEN [st |-> r.st, v |-> v]
    ELSE decodeSliceFrom(r.st, t, Append(v, r.v), ps, i + 1)

\* decodeSlice from index i on; v is the slice built so far
decodeSliceFrom(st, t, v, ps, i) ==
    IF contains(Append(ps, Itoa(i)))
    THEN sliceItem(decode(Logged(st, "probe", Append(ps, Itoa(i))), t.elem, Zero(t.elem),
                          Append(ps, Itoa(i))),
                   t, v, ps, i)
    ELSE [st |-> Logged(st, "probe", Append(ps, Itoa(i))), v |-> v]

decodeSlice(st, t, v, ps) == decodeSliceFrom(st, t, v, ps, 0)

\* the end of decodeStruct's loop body, r being what decode returned for field i
structField(r, t, v, ps, i) ==
    IF returned(r) THEN [st |-> r.st, v |-> [v EXCEPT ![i] = r.v]]
    ELSE decodeStructFrom(r.st, t, [v EXCEPT ![i] = r.v], ps, i + 1)

\* l.decode(attr, fps)
intoField(st, t, v, ps, i, fps) ==
    structField(decode(st, t.fields[i].type, v[i], fps), t, v, ps, i)

\* the body of decodeStruct's loop for field f, tg being what lookupTag returned
structAttr(st, t, v, ps, i, f, tg) ==
    IF ~f.exported THEN decodeStructFrom(st, t, v, ps, i + 1)
    ELSE IF ~tg.ok THEN intoField(st, t, v, ps, i, Append(ps, f.name))
    ELSE IF tg.s = <<"-">> THEN decodeStructFrom(st, t, v, ps, i + 1)
    ELSE IF tg.s \in SquashTags THEN intoField(st, t, v, ps, i, ps)
    ELSE IF Contains(tg.s, OmitEmpty) /\ ~contains(Append(ps, tg.s))
    THEN decodeStructFrom(Logged(st, "probe", Append(ps, tg.s)), t, v, ps, i + 1)
    ELSE intoField(IF Contains(tg.s, OmitEmpty) THEN Logged(st, "probe", Append(ps, tg.s))
                   ELSE st,
                   t, v, ps, i, Append(ps, tg.s))

\* decodeStruct from field i on
decodeStructFrom(st, t, v, ps, i) ==
    IF i > Len(t.fields) THEN [st |-> st, v |-> v]
    ELSE structAttr(st, t, v, ps, i, t.fields[i], lookupTag(t.fields[i].tag, st.TagSupports))

decodeStruct(st, t, v, ps) == decodeStructFrom(st, t, v, ps, 1)

\* the end of decodeMap's loop body, r being what decode returned for the
\* value at keyString
mapEntry(r, t, valMap, ps, k, keyString) ==
    IF returned(r) THEN [st |-> r.st, v |-> valMap, done |-> FALSE]
    ELSE decodeMapFrom(r.st, t, (mapKey(keyString) :> r.v) @@ valMap, ps, k + 1)

\* decodeMap's loop body once guessPrefix returned prefix
mapPrefix(st, t, valMap, ps, k, prefix) ==
    IF Len(prefix) = 0 THEN decodeMapFrom(st, t, valMap, ps, k + 1)
    ELSE mapEntry(decode(st, t.elem, Zero(t.elem), Append(ps, ToLower(prefix))),
                  t, valMap, ps, k, ToLower(prefix))

\* decodeMap's loop body for variable e
mapVariable(st, t, valMap, ps, k, e, trimEnv) ==
    IF trimEnv = e THEN decodeMapFrom(st, t, valMap, ps, k + 1)
    ELSE mapPrefix(st, t, valMap, ps, k,
                   guessPrefix(Split(trimEnv, "_"), t.elem, st.TagSupports))

\* the range loop of decodeMap from position k of the visiting order on; a
\* key deleted before it is reached is not visited.  valMap is the map being
\* filled, which is v itself unless v was nil.
decodeMapFrom(st, t, valMap, ps, k) ==
    IF k > Len(st.order) THEN [st |-> st, v |-> valMap, done |-> TRUE]
    ELSE IF st.order[k] \notin st.env THEN decodeMapFrom(st, t, valMap, ps, k + 1)
    ELSE mapVariable(st, t, valMap, ps, k, st.order[k], mapResidual(st.order[k], ps))

\* v.Set(valMap), which an error return skips: a nil map then stays nil,
\* while a map that was not nil has been filled in place
mapSet(r, v) ==
    IF r.done THEN [st |-> r.st, v |-> [nil |-> FALSE, ent |-> r.v]]
    ELSE [st |-> r.st, v |-> IF v.nil THEN v ELSE [v EXCEPT !.ent = r.v]]

decodeMap(st, t, v, ps) ==
    IF mapTypeError(t) # NoErr THEN [st |-> Failed(st, mapTypeError(t)), v |-> v]
    ELSE mapSet(decodeMapFrom(st, t, v.ent, ps, 1), v)

\* decode's switch on the kind of v
decodeKind(st, t, v, ps) ==
    CASE t.sh = "map"    -> decodeMap(st, t, v, ps)
      [] t.sh = "slice"  -> decodeSlice(st, t, v, ps)
      [] t.sh = "struct" -> decodeStruct(st, t, v, ps)
      [] OTHER           -> decodeDefault(st, t, v, ps)

\* the head of decode: a nil pointer is allocated, a pointer dereferenced once
elemType(t) == IF t.sh = "ptr" THEN t.elem ELSE t

elemValue(t, conf) ==
    IF t.sh = "ptr" THEN (IF conf = <<>> THEN Zero(t.elem) ELSE conf[1]) ELSE conf

pointing(t, r) == [st |-> r.st, v |-> IF t.sh = "ptr" THEN <<r.v>> ELSE r.v]

decode(st, t, conf, ps) == pointing(t, decodeKind(st, elemType(t), elemValue(t, conf), ps))

(***************************************************************************)
(* Callers.  Each scenario is a Go type, the prefix handed to Unmarshal    *)
(* and the variables the process environment may hold; an environment is   *)
(* any set of at most MaxEnv of them with distinct names.                  *)
(***************************************************************************)
\* the most variables an environment holds
MaxEnv == 3

\* the most Unmarshal calls a caller makes on its object
MaxCalls == 2

\* the length from which a caller stops adding tags to a list
MaxTags == 2

GoInt == Scalar("int", 64)

GoInt8 == Scalar("int", 8)

GoInt16 == Scalar("int", 16)

GoUint8 == Scalar("uint", 8)

GoString == Scalar("string", 0)

GoBool == Scalar("bool", 0)

GoFloat64 == Scalar("float", 64)

GoComplex128 == Scalar("complex", 128)

\* the example of Unmarshal's documentation: F int `json:"a,omitempty"`; B int
DocExample ==
    [typ   |-> StructOf(<< Field(<<"F">>, TRUE, "json" :> <<"a",",","o","m","i","t","e","m","p","t","y">>, GoInt),
                        Field(<<"B">>, TRUE, NoTag, GoInt) >>),
     parts |-> <<<<"M","Y","_","P","R","E","F","I","X">>>>,
     vars  |-> << <<<<"M","Y","_","P","R","E","F","I","X","_","A">>, <<"1">>>>,
           <<<<"M","Y","_","P","R","E","F","I","X","_","B">>, <<"2">>>>,
           <<<<"M","Y","_","P","R","E","F","I","X","_","A",",","O","M","I","T","E","M","P","T","Y">>, <<"5">>>> >>]

\* F int `json:"a" yaml:"b"`; G int `mapstructure:"c" env:"d"`
TwoTags ==
    [typ   |-> StructOf(<< Field(<<"F">>, TRUE, ("json" :> <<"a">>) @@ ("yaml" :> <<"b">>), GoInt),
                        Field(<<"G">>, TRUE, ("mapstructure" :> <<"c">>) @@ ("env" :> <<"d">>), GoInt) >>),
     parts |-> <<<<"P">>>>,
     vars  |-> << <<<<"P","_","A">>, <<"1">>>>,
           <<<<"P","_","B">>, <<"2">>>>,
           <<<<"P","_","C">>, <<"3">>>>,
           <<<<"P","_","D">>, <<"4">>>> >>]

\* []int
IntSlice ==
    [typ   |-> SliceOf(GoInt),
     parts |-> <<<<"A">>>>,
     vars  |-> << <<<<"A","_","0">>, <<"1">>>>,
           <<<<"A","_","1">>, <<"2">>>>,
           <<<<"A","_","2">>, <<"3">>>>,
           <<<<"A","_","1","0">>, <<"7">>>>,
           <<<<"A","_","1">>, <<"a","=","b">>>>,
           <<<<"A","_","0">>, <<"x">>>> >>]

\* map[string]string
StringMap ==
    [typ   |-> MapOf(GoString, GoString),
     parts |-> <<<<"M">>>>,
     vars  |-> << <<<<"M","_","K","E","Y","1">>, <<"x">>>>,
           <<<<"M","_","K","E","Y","2">>, <<"y">>>>,
           <<<<"M","_","k","e","y","1">>, <<"z">>>>,
           <<<<"M","_","K","E","Y","1">>, <<"a","=","b">>>> >>]

\* map[string]string, with names that have an underscore in the residual, an
\* empty residual, white space, another prefix
StringMapNames ==
    [typ   |-> MapOf(GoString, GoString),
     parts |-> <<<<"M">>>>,
     vars  |-> << <<<<"M","_","A","_","B">>, <<"w">>>>,
           <<<<"M","_">>, <<"e">>>>,
           <<<<"M","_"," ","K">>, <<"s">>>>,
           <<<<"N","_","K">>, <<"q">>>> >>]

\* map[string]int
IntMap ==
    [typ   |-> MapOf(GoString, GoInt),
     parts |-> <<<<"M">>>>,
     vars  |-> << <<<<"M","_","A">>, <<"1">>>>,
           <<<<"M","_","B">>, <<"x">>>>,
           <<<<"M","_","C">>, <<"y">>>>,
           <<<<"M","_","D">>, <<" ","4"," ">>>> >>]

\* map[string]map[string]string
MapOfMap ==
    [typ   |-> MapOf(GoString, MapOf(GoString, GoString)),
     parts |-> <<<<"M">>>>,
     vars  |-> << <<<<"M","_","A","_","B">>, <<"1">>>>,
           <<<<"M","_","A">>, <<"2">>>>,
           <<<<"N">>, <<"3">>>> >>]

\* map[int]string
IntKeyMap ==
    [typ   |-> MapOf(GoInt, GoString),
     parts |-> <<<<"M">>>>,
     vars  |-> << <<<<"M","_","1">>, <<"a">>>>,
           <<<<"M","_","2">>, <<"b">>>> >>]

\* A int; M map[string]map[string]int; C int
MapOfMapField ==
    [typ   |-> StructOf(<< Field(<<"A">>, TRUE, NoTag, GoInt),
                        Field(<<"M">>, TRUE, NoTag, MapOf(GoString, MapOf(GoString, GoInt))),
                        Field(<<"C">>, TRUE, NoTag, GoInt) >>),
     parts |-> <<<<"P">>>>,
     vars  |-> << <<<<"P","_","A">>, <<"1">>>>,
           <<<<"P","_","A">>, <<"x">>>>,
           <<<<"P","_","M","_","K","_","J">>, <<"2">>>>,
           <<<<"P","_","C">>, <<"3">>>> >>]

\* A int; S *struct{ X int; Y int }; C int; q int
Nested ==
    [typ   |-> StructOf(<< Field(<<"A">>, TRUE, NoTag, GoInt),
                        Field(<<"S">>, TRUE, NoTag,
                              PtrTo(StructOf(<< Field(<<"X">>, TRUE, NoTag, GoInt),
                                                Field(<<"Y">>, TRUE, NoTag, GoInt) >>))),
                        Field(<<"C">>, TRUE, NoTag, GoInt),
                        Field(<<"q">>, FALSE, NoTag, GoInt) >>),
     parts |-> <<<<"P">>>>,
     vars  |-> << <<<<"P","_","A">>, <<"1">>>>,
           <<<<"P","_","A">>, <<"k">>>>,
           <<<<"P","_","S","_","X">>, <<"5">>>>,
           <<<<"P","_","S","_","X">>, <<"x">>>>,
           <<<<"P","_","S","_","Y">>, <<"z","z">>>>,
           <<<<"P","_","C">>, <<"3">>>>,
           <<<<"P","_","Q">>, <<"9">>>> >>]

\* I int8; U uint8; J int16
Narrow ==
    [typ   |-> StructOf(<< Field(<<"I">>, TRUE, NoTag, GoInt8),
                        Field(<<"U">>, TRUE, NoTag, GoUint8),
                        Field(<<"J">>, TRUE, NoTag, GoInt16) >>),
     parts |-> <<<<"N">>>>,
     vars  |-> << <<<<"N","_","I">>, <<"3","0","0">>>>,
           <<<<"N","_","I">>, <<"-","1","2","9">>>>,
           <<<<"N","_","U">>, <<"2","5","6">>>>,
           <<<<"N","_","U">>, <<"2","5","5">>>>,
           <<<<"N","_","J">>, <<"4","0","0","0","0">>>> >>]

\* F1 int `json:"a"`; F2 int `json:"a"`
SameName ==
    [typ   |-> StructOf(<< Field(<<"F","1">>, TRUE, "json" :> <<"a">>, GoInt),
                        Field(<<"F","2">>, TRUE, "json" :> <<"a">>, GoInt) >>),
     parts |-> <<<<"P">>>>,
     vars  |-> << <<<<"P","_","A">>, <<"1">>>>,
           <<<<"P","_","A">>, <<"a","b","c">>>>,
           <<<<"P","_","F","1">>, <<"2">>>> >>]

\* M_A string; M map[string]string
FieldThenMap ==
    [typ   |-> StructOf(<< Field(<<"M","_","A">>, TRUE, NoTag, GoString),
                        Field(<<"M">>, TRUE, NoTag, MapOf(GoString, GoString)) >>),
     parts |-> <<<<"P">>>>,
     vars  |-> << <<<<"P","_","M","_","A">>, <<"1">>>>,
           <<<<"P","_","M","_","B">>, <<"2">>>>,
           <<<<"P","_","M","_","A">>, <<"a","=","b">>>> >>]

\* V string; W []string `json:"w"`
OneString ==
    [typ   |-> StructOf(<< Field(<<"V">>, TRUE, NoTag, GoString),
                        Field(<<"W">>, TRUE, "json" :> <<"w">>, SliceOf(GoString)) >>),
     parts |-> <<<<"P">>>>,
     vars  |-> << <<<<"P","_","V">>, <<"a","=","b">>>>,
           <<<<"P","_","V">>, <<"o","k">>>>,
           <<<<"P","_","W","_","0">>, <<"c","=","d">>>>,
           <<<<"P","_","W","_","0">>, <<"e">>>> >>]

\* S string; B bool; F float64; C complex128; skipped `json:"-"`, with no prefix
Scalars ==
    [typ   |-> StructOf(<< Field(<<"S">>, TRUE, NoTag, GoString),
                        Field(<<"B">>, TRUE, NoTag, GoBool),
                        Field(<<"F">>, TRUE, NoTag, GoFloat64),
                        Field(<<"C">>, TRUE, NoTag, GoComplex128),
                        Field(<<"K">>, TRUE, "json" :> <<"-">>, GoInt) >>),
     parts |-> <<>>,
     vars  |-> << <<<<"S">>, <<" ","h","i"," ">>>>,
           <<<<"B">>, <<"t","r","u","e">>>>,
           <<<<"B">>, <<"m","a","y","b","e">>>>,
           <<<<"F">>, <<"1",".","5">>>>,
           <<<<"F">>, <<"1",".","x">>>>,
           <<<<"C">>, <<"1">>>>,
           <<<<"K">>, <<"3">>>> >>]

\* A int; Inner struct{ A int; B int } `json:",squash"`
Squash ==
    [typ   |-> StructOf(<< Field(<<"A">>, TRUE, NoTag, GoInt),
                        Field(<<"I","n","n","e","r">>, TRUE, "json" :> <<",","s","q","u","a","s","h">>,
                              StructOf(<< Field(<<"A">>, TRUE, NoTag, GoInt),
                                          Field(<<"B">>, TRUE, NoTag, GoInt) >>)) >>),
     parts |-> <<<<"P">>>>,
     vars  |-> << <<<<"P","_","A">>, <<"1">>>>,
           <<<<"P","_","B">>, <<"2">>>>,
           <<<<"P","_","A">>, <<"n","o">>>>,
           <<<<"P","_","I","N","N","E","R","_","A">>, <<"4">>>> >>]

\* map[string]struct{ V int }
StructMap ==
    [typ   |-> MapOf(GoString, StructOf(<< Field(<<"V">>, TRUE, NoTag, GoInt) >>)),
     parts |-> <<<<"M">>>>,
     vars  |-> << <<<<"M","_","M","Y","K","E","Y","_","V">>, <<"5">>>>,
           <<<<"M","_","A","_","B","_","V">>, <<"6">>>>,
           <<<<"M","_","V">>, <<"7">>>>,
           <<<<"M","_","K","_","W">>, <<"8">>>> >>]

Scenarios ==
    << DocExample,
       TwoTags,
       IntSlice,
       StringMap,
       StringMapNames,
       IntMap,
       MapOfMap,
       IntKeyMap,
       MapOfMapField,
       Nested,
       Narrow,
       SameName,
       FieldThenMap,
       OneString,
       Scalars,
       Squash,
       StructMap >>

\* the environments of a scenario: functions from names to values
Environments(sc) ==
    LET idx  == { S \in SUBSET (1..Len(sc.vars)) :
                    /\ Cardinality(S) <= MaxEnv
                    /\ \A i, j \in S : sc.vars[i][1] = sc.vars[j][1] => i = j }
    IN  { [n \in { sc.vars[i][1] : i \in S } |->
              sc.vars[CHOOSE i \in S : sc.vars[i][1] = n][2]] : S \in idx }

\* the orders in which a range loop may visit a set of names
Orders(S) ==
    { f \in [1..Cardinality(S) -> S] : \A i, j \in 1..Cardinality(S) : f[i] = f[j] => i = j }

\* the tags a caller adds, and the lists a caller overrides with
TagNames == {"env"}

TagLists == { <<"json">>, <<"json", "yaml", "mapstructure">> }

(***************************************************************************)
(* The state machine: a caller holding one object and at most one Lamenv   *)
(* instance, in a fixed process environment.                               *)
(***************************************************************************)
Init ==
    /\ \E i \in 1..Len(Scenarios) :
          /\ typ = Scenarios[i].typ
          /\ parts = Scenarios[i].parts
          /\ environ \in Environments(Scenarios[i])
    /\ object = Zero(typ)
    /\ lamenv = <<>>
    /\ calls = 0
    /\ last = <<>>

\* l := lamenv.New()
CallNew ==
    /\ lamenv' = <<New>>
    /\ UNCHANGED <<environ, typ, parts, object, calls, last>>

\* l.AddTagSupport(tag)
AddTagSupport ==
    /\ lamenv # <<>>
    /\ Len(lamenv[1].TagSupports) < MaxTags
    /\ \E tag \in TagNames :
          lamenv' = <<[lamenv[1] EXCEPT !.TagSupports = Append(@, tag)]>>
    /\ UNCHANGED <<environ, typ, parts, object, calls, last>>

\* l.OverrideTagSupport(tags...)
OverrideTagSupport ==
    /\ lamenv # <<>>
    /\ \E tags \in TagLists :
          lamenv' = <<[lamenv[1] EXCEPT !.TagSupports = tags]>>
    /\ UNCHANGED <<environ, typ, parts, object, calls, last>>

\* the return of l.Unmarshal(&object, parts): the decoding state it ends in
\* and the object's value
unmarshalled(r) == [st |-> r.st, v |-> r.v[1]]

\* l.Unmarshal(&object, parts) on instance l, its range loops visiting env
\* in the given order
Unmarshal(l, order) ==
    unmarshalled(decode([TagSupports |-> l.TagSupports, env |-> l.env, order |-> order,
                         err |-> NoErr, log |-> <<>>],
                        PtrTo(typ), <<object>>, parts))

\* whether a call repeats the call before it: made the same way with the
\* same tag list, after a call that returned no error
Again(via, l) ==
    /\ last # <<>>
    /\ last[1].via = via
    /\ last[1].tags = l.TagSupports
    /\ last[1].err = NoErr

\* the record of a call: how it was made, the object and the instance's env
\* before and after it, the error it returned and its environment accesses
Record(via, l, r) ==
    [via |-> via, tags |-> l.TagSupports, again |-> Again(via, l),
     before |-> object, after |-> r.v,
     envBefore |-> l.env, envAfter |-> r.st.env, err |-> r.st.err, log |-> r.st.log]

\* what a call of Unmarshal on instance l leaves behind
Called(via, l, r) ==
    /\ object' = r.v
    /\ last' = <<Record(via, l, r)>>
    /\ calls' = calls + 1
    /\ IF via = "instance" THEN lamenv' = <<[l EXCEPT !.env = r.st.env]>>
       ELSE UNCHANGED lamenv

\* whether decoding a value of type t reaches decodeMap, the only place
\* that ranges over env
RECURSIVE ranges(_)
ranges(t) ==
    CASE t.sh = "map"             -> TRUE
      [] t.sh \in {"ptr", "slice"} -> ranges(t.elem)
      [] t.sh = "struct"          -> \E i \in 1..Len(t.fields) : ranges(t.fields[i].type)
      [] OTHER                    -> FALSE

\* the orders in which a call on instance l may visit env; a call that never
\* ranges over env visits it in no order
Visits(l) == IF ranges(typ) THEN Orders(l.env) ELSE {<<>>}

CallOn(via, l) == \E order \in Visits(l) : Called(via, l, Unmarshal(l, order))

\* lamenv.Unmarshal(&object, parts): a fresh instance serves the call
UnmarshalPackage ==
    /\ calls < MaxCalls
    /\ CallOn("package", New)
    /\ UNCHANGED <<environ, typ, parts>>

\* l.Unmarshal(&object, parts) on the caller's instance
UnmarshalInstance ==
    /\ calls < MaxCalls
    /\ lamenv # <<>>
    /\ CallOn("instance", lamenv[1])
    /\ UNCHANGED <<environ, typ, parts>>

Next ==
    \/ CallNew
    \/ AddTagSupport
    \/ OverrideTagSupport
    \/ UnmarshalPackage
    \/ UnmarshalInstance

Spec == Init /\ [][Next]_vars

\* the same caller, holding a sequence
SequenceInit == Init /\ typ.sh = "slice"

SequenceSpec == SequenceInit /\ [][Next]_vars

\* the same caller, holding a mapping with string keys and scalar values
MappingInit == Init /\ typ.sh = "map" /\ typ.key = GoString /\ typ.elem.sh = "scalar"

MappingSpec == MappingInit /\ [][Next]_vars

\* the same caller, holding a mapping of mappings or a record with one
RejectedInit == Init /\ typ \in { MapOfMap.typ, MapOfMapField.typ }

RejectedSpec == RejectedInit /\ [][Next]_vars

\* the same caller, holding a record without sequences and mappings
RecordInit ==
    Init /\ typ \in { TwoTags.typ, Nested.typ, Narrow.typ, SameName.typ, Scalars.typ, Squash.typ }

RecordSpec == RecordInit /\ [][Next]_vars

(***************************************************************************)
(* Properties.  They read the record of the last call, which exists once   *)
(* a call has been made.                                                   *)
(***************************************************************************)
made == last # <<>>

\* the names of the environment whose entry splits into exactly two parts
\* on "=": those whose value holds no "="
wellFormed == { n \in DOMAIN environ : ~Contains(environ[n], <<"=">>) }

\* what the scalar codec makes of the variable called name for a fresh
\* value of type t, nothing if there is no such variable
codec(t, name) ==
    IF name \in DOMAIN environ THEN decodeNative(t, Zero(t), environ[name])
    ELSE [err |-> NoErr, v |-> Zero(t)]

least(S) == CHOOSE x \in S : \A y \in S : x <= y

\* C1: a second Unmarshal on the target a first Unmarshal populated, both
\* free of error and made with the same tag list in the same environment,
\* leaves the target as the first call left it.
Idempotence ==
    (made /\ last[1].again /\ last[1].err = NoErr) => last[1].after = last[1].before

\* the sequence of A_0=1 after two package-level calls
TwiceAppended ==
    /\ calls = 2
    /\ typ = IntSlice.typ
    /\ last[1].again
    /\ last[1].via = "package"
    /\ last[1].before = <<1>>
    /\ object = <<1, 1>>

\* C2: under the default tag list, a field tagged json:"a" yaml:"b" is bound
\* from PREFIX_A: after a package-level Unmarshal that returned no error in
\* an environment holding P_A, the field holds the value of P_A.
JsonBeforeYaml ==
    (/\ made
     /\ last[1].via = "package"
     /\ typ = TwoTags.typ
     /\ last[1].err = NoErr
     /\ <<"P","_","A">> \in DOMAIN environ)
        => object[1] = codec(GoInt, <<"P","_","A">>).v

\* the field tagged json:"a" yaml:"b" bound from P_B while P_A is set
BoundFromYaml ==
    /\ calls = 1
    /\ last[1].via = "package"
    /\ typ = TwoTags.typ
    /\ <<"P","_","A">> \in DOMAIN environ
    /\ <<"P","_","B">> \in DOMAIN environ
    /\ object[1] = 2

\* C3: a field tagged json:"a,omitempty" is bound from build(path + "a"):
\* with MY_PREFIX_A set, the field holds its decoded value after an Unmarshal
\* that returned no error, and no variable whose name holds the modifier
\* text is looked up.
OmitEmptyName ==
    (/\ made
     /\ typ = DocExample.typ
     /\ last[1].err = NoErr
     /\ <<"M","Y","_","P","R","E","F","I","X","_","A">> \in DOMAIN environ)
        => /\ object[1] = codec(GoInt, <<"M","Y","_","P","R","E","F","I","X","_","A">>).v
           /\ \A k \in 1..Len(last[1].log) : ~Contains(last[1].log[k].name, <<",">>)

\* the documented example: MY_PREFIX_A=1 leaves F at 0
DocExampleUnbound ==
    /\ calls = 1
    /\ typ = DocExample.typ
    /\ DOMAIN environ = { <<"M","Y","_","P","R","E","F","I","X","_","A">> }
    /\ last[1].err = NoErr
    /\ object[1] = 0

\* the least index from i on that no well-formed name holds, as a substring,
\* the variable name of
RECURSIVE probed(_)
probed(i) ==
    IF \E n \in wellFormed : Contains(n, buildEnvVariable(Append(parts, Itoa(i))))
    THEN probed(i + 1)
    ELSE i

\* the least index from i on whose variable is absent
RECURSIVE firstAbsent(_)
firstAbsent(i) ==
    IF buildEnvVariable(Append(parts, Itoa(i))) \in DOMAIN environ THEN firstAbsent(i + 1)
    ELSE i

\* what the codec makes of the variable of index j
item(j) == codec(typ.elem, buildEnvVariable(Append(parts, Itoa(j))))

\* the probed indexes whose variable the codec rejects
badItems == { j \in 0..(probed(0) - 1) : item(j).err # NoErr }

\* the number of elements a call appends
appended == IF badItems = {} THEN probed(0) ELSE least(badItems)

\* C4: a call binding a sequence of scalars at path P probes the indexes 0,
\* 1, 2, ... and stops at the first index i such that no well-formed
\* variable name holds build(P + i) as a substring; it appends, to the
\* elements the sequence had, one element per probed index, the decoded
\* value of that index's variable or the zero value when the variable does
\* not exist, up to the first index whose variable does not parse, whose
\* error it returns.
SequenceProbe ==
    (made /\ typ.sh = "slice" /\ typ.elem.sh = "scalar")
        => /\ last[1].err = (IF badItems = {} THEN NoErr ELSE item(least(badItems)).err)
           /\ last[1].after = last[1].before \o [j \in 1..appended |-> item(j - 1).v]

\* A_0 and A_10 set, A_1 absent: a zero element follows the one of A_0
ZeroAtGap ==
    /\ calls = 1
    /\ typ = IntSlice.typ
    /\ DOMAIN environ = { <<"A","_","0">>, <<"A","_","1","0">> }
    /\ environ[<<"A","_","0">>] = <<"1">>
    /\ last[1].err = NoErr
    /\ object = <<1, 0>>

\* C4 as stated: a first call that returns no error leaves as many elements
\* as there are indexes before the first one whose variable is absent.
StopsAtFirstAbsent ==
    (calls = 1 /\ typ.sh = "slice" /\ last[1].err = NoErr)
        => Len(object) = firstAbsent(0)

\* the prefix of the variables of the mapping at path P
mapPrefixName == buildEnvVariable(parts) \o <<"_">>

\* the variables a mapping pass considers: those of the instance's
\* namespace that start with the prefix and have a non-empty residual
candidates ==
    { n \in last[1].envBefore : HasPrefix(n, mapPrefixName) /\ Len(n) > Len(mapPrefixName) }

\* the residual of candidate n, lower-cased
residualKey(n) == ToLower(SubSeq(n, Len(mapPrefixName) + 1, Len(n)))

\* the keys of the entries a mapping pass writes: the lower-cased residuals,
\* surrounding white space removed
writtenKeys == { TrimSpace(residualKey(n)) : n \in candidates }

\* what the pass stores for candidate n
written(n) == codec(typ.elem, buildEnvVariable(Append(parts, residualKey(n))))

scalarMap == typ.sh = "map" /\ typ.key = GoString /\ typ.elem.sh = "scalar"

\* C5: a call that binds a mapping with string keys and scalar values at
\* path P and returns no error leaves the entries the mapping had, and one
\* entry per lower-cased residual of the variables of the instance's
\* namespace that start with build(P) + "_" and have a non-empty residual;
\* the entry holds the decoded value of the variable named build(P + key),
\* the upper-cased name, or the zero value when no such variable exists.
MappingRecovery ==
    (made /\ scalarMap /\ last[1].err = NoErr)
        => /\ ~last[1].after.nil
           /\ DOMAIN last[1].after.ent = DOMAIN last[1].before.ent \cup writtenKeys
           /\ \A k \in writtenKeys :
                 \E n \in candidates : /\ TrimSpace(residualKey(n)) = k
                                       /\ last[1].after.ent[k] = written(n).v
           /\ \A k \in DOMAIN last[1].before.ent \ writtenKeys :
                 last[1].after.ent[k] = last[1].before.ent[k]

\* M_key1=z alone: the entry key1 holds the zero value
LowerCaseUnbound ==
    /\ calls = 1
    /\ typ = StringMap.typ
    /\ DOMAIN environ = { <<"M","_","k","e","y","1">> }
    /\ last[1].err = NoErr
    /\ DOMAIN object.ent = { <<"k","e","y","1">> }
    /\ object.ent[<<"k","e","y","1">>] = <<>>

\* C5 as stated: after a first call that returns no error, every candidate
\* variable has the entry keyed by its lower-cased residual, holding that
\* variable's decoded value.
MappingHoldsOwnValue ==
    (calls = 1 /\ scalarMap /\ last[1].err = NoErr)
        => \A n \in candidates :
              /\ residualKey(n) \in DOMAIN object.ent
              /\ object.ent[residualKey(n)] = decodeNative(typ.elem, Zero(typ.elem), environ[n]).v

isMapOfMap(t) == t.sh = "map" /\ t.key = GoString /\ t.elem.sh = "map"

mapOfMapError ==
    [kind |-> "errorString",
     msg  |-> "unable to unmarshal a map of a map, it's not a determinist datamodel"]

\* types made of records, pointers and scalars only, no field of which is
\* tagged omitempty
RECURSIVE recordOnly(_)
recordOnly(t) ==
    CASE t.sh = "ptr"    -> recordOnly(t.elem)
      [] t.sh = "struct" ->
           \A i \in 1..Len(t.fields) :
              /\ recordOnly(t.fields[i].type)
              /\ \A k \in DOMAIN t.fields[i].tag : ~Contains(t.fields[i].tag[k], OmitEmpty)
      [] t.sh = "scalar" -> TRUE
      [] OTHER           -> FALSE

\* the scalar leaves of such a type t at path ps, in depth-first, field-
\* declaration order, under a tag list: the variable name of each, its type
\* and the indexes of the fields that lead to it
RECURSIVE leavesOf(_, _, _, _)
RECURSIVE leavesFrom(_, _, _, _, _)
leavesOf(t, ps, at, tags) ==
    CASE t.sh = "ptr"    -> leavesOf(t.elem, ps, at, tags)
      [] t.sh = "struct" -> leavesFrom(t, ps, at, tags, 1)
      [] OTHER           -> << [name |-> buildEnvVariable(ps), type |-> t, at |-> at] >>

leavesFrom(t, ps, at, tags, i) ==
    IF i > Len(t.fields) THEN <<>>
    ELSE LET f    == t.fields[i]
             tg   == lookupTag(f.tag, tags)
             rest == leavesFrom(t, ps, at, tags, i + 1)
         IN  IF ~f.exported \/ (tg.ok /\ tg.s = <<"-">>) THEN rest
             ELSE IF tg.ok /\ tg.s \in SquashTags
             THEN leavesOf(f.type, ps, Append(at, i), tags) \o rest
             ELSE leavesOf(f.type, Append(ps, IF tg.ok THEN tg.s ELSE f.name),
                           Append(at, i), tags) \o rest

\* the value found in v, of type t, along the field indexes at; a nil
\* pointer on the way reads as the zero value of what it points to
RECURSIVE valueAt(_, _, _)
valueAt(t, v, at) ==
    IF t.sh = "ptr" THEN valueAt(t.elem, IF v = <<>> THEN Zero(t.elem) ELSE v[1], at)
    ELSE IF at = <<>> THEN v
    ELSE valueAt(t.fields[at[1]].type, v[at[1]], Tail(at))

\* the leaves whose variable the codec rejects
failing(ls) == { k \in 1..Len(ls) : codec(ls[k].type, ls[k].name).err # NoErr }

\* a call on a record stopped at leaf f of ls: leaves before f are bound,
\* leaf f and the leaves after it are as they were, as is every field
\* declared after the one leaf f lies in; every environment access is for
\* the variable of a leaf up to f, and those variables are the ones consumed
stoppedAt(c, ls, f) ==
    /\ \A k \in 1..Len(ls) :
          valueAt(typ, c.after, ls[k].at) =
             IF k >= f \/ ls[k].name \notin DOMAIN environ
             THEN valueAt(typ, c.before, ls[k].at)
             ELSE codec(ls[k].type, ls[k].name).v
    /\ \A j \in 1..Len(typ.fields) : j > ls[f].at[1] => c.after[j] = c.before[j]
    /\ \A e \in 1..Len(c.log) : \E k \in 1..f : c.log[e].name = ls[k].name
    /\ c.envAfter = c.envBefore \ { ls[k].name : k \in { j \in 1..f : ls[j].name \in DOMAIN environ } }

\* C6: an Unmarshal whose root target is a mapping of mappings returns the
\* configuration error, having read and consumed no variable and written
\* nothing.  When the mapping of mappings is a field of the root record,
\* declared after fields of records and scalars, the call returns an error
\* and leaves that field and the fields declared after it as they were; the
\* error is the configuration error unless a scalar declared before the
\* mapping does not parse, and the only variables read and consumed are
\* those of the scalars declared before the mapping.
MapOfMapRejected ==
    made =>
       /\ isMapOfMap(typ) =>
             /\ last[1].err = mapOfMapError
             /\ last[1].log = <<>>
             /\ last[1].after = last[1].before
             /\ last[1].envAfter = last[1].envBefore
       /\ typ.sh = "struct" =>
             \A i \in 1..Len(typ.fields) :
                (/\ isMapOfMap(typ.fields[i].type)
                 /\ typ.fields[i].exported
                 /\ recordOnly(StructOf(SubSeq(typ.fields, 1, i - 1)))) =>
                   LET ls == leavesOf(StructOf(SubSeq(typ.fields, 1, i - 1)), parts, <<>>,
                                      last[1].tags)
                   IN  /\ last[1].err = (IF failing(ls) = {} THEN mapOfMapError
                                         ELSE codec(ls[least(failing(ls))].type,
                                                    ls[least(failing(ls))].name).err)
                       /\ \A j \in i..Len(typ.fields) : last[1].after[j] = last[1].before[j]
                       /\ \A e \in 1..Len(last[1].log) :
                             \E k \in 1..Len(ls) : last[1].log[e].name = ls[k].name

\* A int; M map[string]map[string]int with P_A=1: A is read, consumed and
\* written before the configuration error is returned
ReadBeforeRejected ==
    /\ calls = 1
    /\ typ = MapOfMapField.typ
    /\ last[1].err = mapOfMapError
    /\ <<"P","_","A">> \in last[1].envBefore \ last[1].envAfter
    /\ last[1].before[1] = 0
    /\ object[1] = 1

\* C6 as stated: wherever the mapping of mappings sits, the call returns
\* the configuration error and has found, read and consumed no variable
\* and written nothing.
RejectsBeforeReading ==
    (made /\ typ \in { MapOfMap.typ, MapOfMapField.typ })
        => /\ last[1].err = mapOfMapError
           /\ \A e \in 1..Len(last[1].log) : last[1].log[e].op = "lookup"
           /\ last[1].after = last[1].before
           /\ last[1].envAfter = last[1].envBefore

\* C7: a call on a target made of records, pointers to records and scalars
\* returns no error if every variable of its scalar fields parses, and
\* otherwise returns exactly the error of the codec for the first scalar
\* field, in depth-first, field-declaration order, whose variable does not
\* parse; that field and every field after it are as they were, and no
\* variable other than those of the fields up to the failing one is looked
\* up or consumed.
FailFast ==
    (made /\ typ.sh = "struct" /\ recordOnly(typ)) =>
        LET ls == leavesOf(typ, parts, <<>>, last[1].tags)
        IN  IF failing(ls) = {} THEN last[1].err = NoErr
            ELSE /\ last[1].err = codec(ls[least(failing(ls))].type,
                                        ls[least(failing(ls))].name).err
                 /\ stoppedAt(last[1], ls, least(failing(ls)))

\* A int; S *struct{X, Y int}; C int with P_A=1, P_S_X=x, P_C=3: the error
\* of X is returned, A is bound, C is not
StoppedInside ==
    /\ calls = 1
    /\ typ = Nested.typ
    /\ last[1].err = NumError("ParseInt", <<"x">>, "invalid syntax")
    /\ <<"P","_","C">> \in DOMAIN environ
    /\ <<"P","_","C">> \in last[1].envAfter
    /\ object[1] = 1
    /\ object[3] = 0

\* whether x fits the width of integer type t
fits(t, x) ==
    IF t.kind = "uint" THEN x >= 0 /\ x < 2^t.bits
    ELSE x >= 0 - 2^(t.bits - 1) /\ x < 2^(t.bits - 1)

\* the value of the base-10 literal s read for integer type t
literal(t, s) == IF t.kind = "uint" THEN ParseUint(TrimSpace(s)) ELSE ParseInt(TrimSpace(s))

\* the fields of I int8; U uint8; J int16 and their variables
narrowName(i) == buildEnvVariable(Append(parts, Narrow.typ.fields[i].name))

\* C8: decoding a base-10 literal whose value does not fit the declared
\* width of the integer field returns a parse error and leaves the field
\* unchanged.
NarrowingChecked ==
    (made /\ typ = Narrow.typ) =>
        \A i \in 1..Len(typ.fields) :
           (/\ narrowName(i) \in DOMAIN environ
            /\ \E e \in 1..Len(last[1].log) :
                  last[1].log[e].op = "delete" /\ last[1].log[e].name = narrowName(i)
            /\ literal(typ.fields[i].type, environ[narrowName(i)]).err = NoErr
            /\ ~fits(typ.fields[i].type, literal(typ.fields[i].type, environ[narrowName(i)]).val))
              => /\ last[1].err.kind = "NumError"
                 /\ last[1].after[i] = last[1].before[i]

\* N_I=300 stores 44 in the int8 field and returns no error
StoredWrapped ==
    /\ calls = 1
    /\ typ = Narrow.typ
    /\ <<"N","_","I">> \in DOMAIN environ
    /\ environ[<<"N","_","I">>] = <<"3","0","0">>
    /\ last[1].err = NoErr
    /\ object[1] = 44

\* C9: a variable whose entry does not split into exactly two parts on "="
\* is never bound to a scalar field: no call reads its value into the codec
\* nor consumes it.
MalformedSkipped ==
    made =>
       \A e \in 1..Len(last[1].log) :
          last[1].log[e].op \in {"delete", "decoded", "failed"}
             => last[1].log[e].name \in wellFormed

\* V string with P_V=a=b: V holds a=b
MalformedBound ==
    /\ calls = 1
    /\ typ = OneString.typ
    /\ DOMAIN environ = { <<"P","_","V">> }
    /\ <<"P","_","V">> \notin wellFormed
    /\ object[1] = <<"a","=","b">>

\* C10: within one call no variable is bound twice, and a variable is
\* removed from the namespace only when its scalar bind succeeded.
SingleConsumption ==
    made =>
       /\ \A j, k \in 1..Len(last[1].log) :
             (/\ j < k
              /\ last[1].log[j].op = "decoded"
              /\ last[1].log[k].op = "decoded") => last[1].log[j].name # last[1].log[k].name
       /\ \A k \in 1..Len(last[1].log) :
             (last[1].log[k].op = "failed" /\ last[1].log[k].name \in last[1].envBefore)
                => last[1].log[k].name \in last[1].envAfter

\* F1 and F2, both tagged json:"a", with P_A=1: both hold 1
BoundTwice ==
    /\ calls = 1
    /\ typ = SameName.typ
    /\ last[1].err = NoErr
    /\ object = <<1, 1>>

=============================================================================
